---- MODULE Spec2Model ----
(***************************************************************************)
(* Buffer pool manager of gman_db (src/buffer/buffer_pool_manager.rs).     *)
(*                                                                         *)
(* The exclusive-ownership path of BufferPoolManager (new_page,            *)
(* fetch_page, unpin_page, flush_page, flush_all_pages, delete_page)       *)
(* takes &mut self, so a call is one atomic step.  new_page_concurrent     *)
(* takes &self and works on the mutex-guarded `fields`; it is a sequence   *)
(* of steps per thread, one per lock operation.  LRUKReplacer,             *)
(* DiskManager and Page live outside the files at hand; they are modelled  *)
(* from the specification's description of them, and the replacer is also  *)
(* driven on its own (SpecReplacer).                                       *)
(***************************************************************************)
EXTENDS Integers, Sequences, FiniteSets, TLC

\* ---------------------------------------------------------------- bounds
pool_size == 2          \* BufferPoolManager::new(pool_size, ..)
replacer_k == 2         \* BufferPoolManager::new(.., replacer_k)
MaxPageId == 3          \* new_page is called while next_page_id < MaxPageId
MaxTime == 4            \* acquisitions stop when the replacer clock reaches it
MaxData == 1            \* page bytes range over 0..MaxData
replacer_frames == 3    \* capacity of the replacer driven on its own (SpecReplacer)
MaxAccesses == 4        \* record_access calls on the replacer driven on its own
NumThreads == 2         \* threads calling new_page_concurrent
MaxCalls == 6           \* calls per path when the two new_page paths are compared

INVALID_PAGE_ID == -1
NoFrame == 0 - 1        \* `let mut frame_id: FrameID = -1`

Frames == 0 .. (pool_size - 1)
PageIds == 0 .. (MaxPageId - 1)
DataVals == 0 .. MaxData

VARIABLES
    free_list,      \* LinkedList<FrameID>
    page_table,     \* HashMap<PageID, FrameID>
    pages,          \* Vec<Page>
    next_page_id,   \* PageID
    replacer,       \* LRUKReplacer
    disk_manager,   \* DiskManager: the on-disk image of every page
    page_id_out,    \* the caller's `page_id: &mut PageID` of new_page
    last,           \* observation of the last call: arguments, result, I/O
    dirty_unpinned, \* history: frame's page was unpin_page(.., true)'d and not written since
    net_pins,       \* history: acquisitions minus unpins of the frame's page since resident
    fields,         \* Mutex<BPMFields>: the state new_page_concurrent works on
    fields_lock,    \* the thread holding the `fields` mutex, or NoThread
    threads,        \* per thread: its position in new_page_concurrent and its locals
    returned_ids,   \* history: the page ids successful new_page calls have returned
    calls           \* history: the outcomes of the calls made on each new_page path

vars == <<free_list, page_table, pages, next_page_id, replacer, disk_manager,
          page_id_out, last, dirty_unpinned, net_pins,
          fields, fields_lock, threads, returned_ids, calls>>

concurrent == <<fields, fields_lock, threads>>

pool == <<free_list, page_table, pages, next_page_id, replacer, disk_manager>>

\* ---------------------------------------------------------------- Page
PageNew == [page_id |-> INVALID_PAGE_ID, pin_count |-> 0, is_dirty |-> FALSE, data |-> 0]

reset_memory(pg) == [pg EXCEPT !.data = 0]

\* ---------------------------------------------------------------- DiskManager
DiskNew == [p \in PageIds |-> 0]

write_page(dm, p, bytes) == IF p \in PageIds THEN [dm EXCEPT ![p] = bytes] ELSE dm

read_page(dm, p) == dm[p]

\* ---------------------------------------------------------------- LRUKReplacer
NoNode == [tracked |-> FALSE, history |-> <<>>, is_evictable |-> FALSE]

ReplacerOf(num_frames) ==
    [current_timestamp |-> 0, node_store |-> [f \in 0 .. (num_frames - 1) |-> NoNode]]

ReplacerNew == ReplacerOf(pool_size)

LastK(h) == IF Len(h) > replacer_k THEN SubSeq(h, Len(h) - replacer_k + 1, Len(h)) ELSE h

record_access(r, f) ==
    [current_timestamp |-> r.current_timestamp + 1,
     node_store |-> [r.node_store EXCEPT ![f] =
        [tracked |-> TRUE,
         history |-> LastK(Append(@.history, r.current_timestamp)),
         is_evictable |-> @.is_evictable]]]

set_evictable(r, f, b) ==
    IF r.node_store[f].tracked
    THEN [r EXCEPT !.node_store[f].is_evictable = b]
    ELSE r

remove(r, f) == [r EXCEPT !.node_store[f] = NoNode]

Evictable(r) ==
    {f \in DOMAIN r.node_store : r.node_store[f].tracked /\ r.node_store[f].is_evictable}

size(r) == Cardinality(Evictable(r))

\* fewer than K recorded accesses: backward k-distance is infinite
IsInf(r, f) == Len(r.node_store[f].history) < replacer_k

\* with the history capped to the last K accesses, its head is the K-th most
\* recent access (or the earliest access overall when fewer than K are recorded)
KthStamp(r, f) == r.node_store[f].history[1]

\* bug: the most recently used candidate is chosen
Victim_mru(r) ==
    LET E == Evictable(r)
        I == {f \in E : IsInf(r, f)}
        C == IF I # {} THEN I ELSE E
    IN CHOOSE f \in C : \A g \in C : KthStamp(r, f) >= KthStamp(r, g)

Victim(r) ==
    LET E == Evictable(r)
        I == {f \in E : IsInf(r, f)}
        C == IF I # {} THEN I ELSE E
    IN CHOOSE f \in C : \A g \in C : KthStamp(r, f) <= KthStamp(r, g)

evict(r) ==
    IF Evictable(r) = {}
    THEN [ok |-> FALSE, frame_id |-> NoFrame, replacer |-> r]
    ELSE [ok |-> TRUE, frame_id |-> Victim(r), replacer |-> remove(r, Victim(r))]

\* ---------------------------------------------------------------- observations
NoCall ==
    [op |-> "init", page_id |-> INVALID_PAGE_ID, is_dirty |-> FALSE,
     ok |-> FALSE, hit |-> FALSE, frame |-> NoFrame, evict_called |-> FALSE,
     victim |-> NoFrame, victim_page |-> INVALID_PAGE_ID, victim_pin |-> 0,
     victim_data |-> 0, victim_owed |-> FALSE, dirty_before |-> FALSE,
     wrote |-> <<>>, read |-> <<>>]

\* ---------------------------------------------------------------- helpers
Resident(p) == p \in DOMAIN page_table

MapInsert(m, k, v) == [x \in (DOMAIN m) \cup {k} |-> IF x = k THEN v ELSE m[x]]

\* bug: the entry is left in the map
MapRemove_kept(m, k) == m

MapRemove(m, k) == [x \in (DOMAIN m) \ {k} |-> m[x]]

\* ---------------------------------------------------------------- BPMFields
Threads == 1 .. NumThreads
NoThread == 0

\* BufferPoolManager::new 58: Mutex::new(BPMFields::default()); nothing in the
\* source ever stores into it outside new_page_concurrent.
FieldsDefault ==
    [pool_size |-> 0, next_page_id |-> 0, page_table |-> <<>>, meta_data |-> <<>>,
     replacer |-> ReplacerOf(0), free_list |-> <<>>, pages |-> <<>>]

\* a thread outside new_page_concurrent; inside, frame_id is its local of 118
\* and holds_page the frame whose RwLock it holds for reading (132)
ThreadIdle == [pc |-> "idle", frame_id |-> NoFrame, page_id |-> INVALID_PAGE_ID,
               holds_page |-> NoFrame]

Init ==
    /\ free_list = [i \in 1 .. pool_size |-> i - 1]
    /\ page_table = <<>>
    /\ pages = [f \in Frames |-> PageNew]
    /\ next_page_id = 0
    /\ replacer = ReplacerNew
    /\ disk_manager = DiskNew
    /\ page_id_out = INVALID_PAGE_ID
    /\ last = NoCall
    /\ dirty_unpinned = [f \in Frames |-> FALSE]
    /\ net_pins = [f \in Frames |-> 0]
    /\ fields = FieldsDefault
    /\ fields_lock = NoThread
    /\ threads = [t \in Threads |-> ThreadIdle]
    /\ returned_ids = {}
    /\ calls = [exclusive |-> <<>>, concurrent |-> <<>>]


\* ---------------------------------------------------------------- frame acquisition
\* new_page 87-101 / fetch_page 179-193: free list first, else the replacer's
\* victim; a dirty victim is written back and its page-table entry removed.
AcquireFrame ==
    IF free_list # <<>>
    THEN [ok |-> TRUE, frame_id |-> Head(free_list), free_list |-> Tail(free_list),
          replacer |-> replacer, page_table |-> page_table, disk |-> disk_manager,
          evict_called |-> FALSE, victim |-> NoFrame, wrote |-> <<>>]
    ELSE LET e == evict(replacer) IN
         IF ~e.ok
         THEN [ok |-> FALSE, frame_id |-> NoFrame, free_list |-> free_list,
               replacer |-> e.replacer, page_table |-> page_table, disk |-> disk_manager,
               evict_called |-> TRUE, victim |-> NoFrame, wrote |-> <<>>]
         ELSE LET evicted_page == pages[e.frame_id] IN
              [ok |-> TRUE, frame_id |-> e.frame_id, free_list |-> free_list,
               replacer |-> e.replacer,
               page_table |-> MapRemove(page_table, evicted_page.page_id),
               disk |-> IF evicted_page.is_dirty
                        THEN write_page(disk_manager, evicted_page.page_id, evicted_page.data)
                        ELSE disk_manager,
               evict_called |-> TRUE, victim |-> e.frame_id,
               wrote |-> IF evicted_page.is_dirty
                         THEN << <<evicted_page.page_id, evicted_page.data>> >>
                         ELSE <<>>]

\* what the call observed of its victim, taken when the victim is selected
VictimSeen(a) ==
    IF a.victim = NoFrame
    THEN [victim |-> NoFrame, victim_page |-> INVALID_PAGE_ID, victim_pin |-> 0,
          victim_data |-> 0, victim_owed |-> FALSE]
    ELSE [victim |-> a.victim, victim_page |-> pages[a.victim].page_id,
          victim_pin |-> pages[a.victim].pin_count,
          victim_data |-> pages[a.victim].data,
          victim_owed |-> dirty_unpinned[a.victim]]

Observe(op, p, d, ok, hit, f, a, db, wr, rd) ==
    LET v == VictimSeen(a) IN
    [op |-> op, page_id |-> p, is_dirty |-> d, ok |-> ok, hit |-> hit, frame |-> f,
     evict_called |-> a.evict_called, victim |-> v.victim, victim_page |-> v.victim_page,
     victim_pin |-> v.victim_pin, victim_data |-> v.victim_data,
     victim_owed |-> v.victim_owed,
     dirty_before |-> db, wrote |-> wr, read |-> rd]

NoAcquire == [evict_called |-> FALSE, victim |-> NoFrame]

\* bug: the counter is not advanced
allocate_page_stuck(n) == [id |-> n, next_page_id |-> n]

\* allocate_page 310-313
allocate_page(n) == [id |-> n, next_page_id |-> n + 1]

\* bug: the id is allocated before the frame is acquired
new_page_next_id_early(ok, n) == allocate_page(n).next_page_id

\* new_page 93-95, 103: the early return comes before allocate_page
new_page_next_id(ok, n) == IF ok THEN allocate_page(n).next_page_id ELSE n

\* new_page 109-110: only pin_count and page_id are assigned
new_page_meta(pg, id) == [pg EXCEPT !.pin_count = 1, !.page_id = id]

new_page ==
    LET a == AcquireFrame
        id == allocate_page(next_page_id).id
    IN
    /\ a.ok => (next_page_id < MaxPageId /\ replacer.current_timestamp < MaxTime)
    /\ next_page_id' = new_page_next_id(a.ok, next_page_id)
    /\ free_list' = a.free_list
    /\ disk_manager' = a.disk
    /\ IF a.ok
       THEN /\ page_id_out' = id
            /\ page_table' = MapInsert(a.page_table, id, a.frame_id)
            /\ replacer' = set_evictable(record_access(a.replacer, a.frame_id), a.frame_id, FALSE)
            /\ pages' = [pages EXCEPT ![a.frame_id] = new_page_meta(@, id)]
            /\ dirty_unpinned' = [dirty_unpinned EXCEPT ![a.frame_id] = FALSE]
            /\ net_pins' = [net_pins EXCEPT ![a.frame_id] = 1]
            /\ last' = Observe("new_page", id, FALSE, TRUE, FALSE, a.frame_id, a,
                               pages[a.frame_id].is_dirty, a.wrote, <<>>)
       ELSE /\ page_table' = a.page_table
            /\ replacer' = a.replacer
            /\ UNCHANGED <<page_id_out, pages, dirty_unpinned, net_pins>>
            /\ last' = Observe("new_page", INVALID_PAGE_ID, FALSE, FALSE, FALSE, NoFrame, a,
                               FALSE, <<>>, <<>>)


\* bug: a hit records the access but leaves the frame evictable
fetch_hit_replacer_no_pin(r, f) == record_access(r, f)

\* bug: a hit pins the frame but records no access
fetch_hit_replacer_no_access(r, f) == set_evictable(r, f, FALSE)

\* fetch_page 172-173
fetch_hit_replacer(r, f) == set_evictable(record_access(r, f), f, FALSE)

\* bug: a hit resets the pin count instead of incrementing it
fetch_hit_pin_reset(pin) == 1

\* fetch_page 174
fetch_hit_pin(pin) == pin + 1

\* fetch_page 201-202, with the bytes read at 195
fetch_page_meta(pg, id, bytes) == [pg EXCEPT !.pin_count = 1, !.page_id = id, !.data = bytes]

\* Page ids handed to fetch_page are ids this pool allocated earlier.
FetchIds == 0 .. (next_page_id - 1)

fetch_page(page_id) ==
    IF Resident(page_id)
    THEN LET frame_id == page_table[page_id] IN
         /\ replacer.current_timestamp < MaxTime
         /\ replacer' = fetch_hit_replacer(replacer, frame_id)
         /\ pages' = [pages EXCEPT ![frame_id].pin_count = fetch_hit_pin(@)]
         /\ net_pins' = [net_pins EXCEPT ![frame_id] = @ + 1]
         /\ last' = Observe("fetch_page", page_id, FALSE, TRUE, TRUE, frame_id, NoAcquire,
                            pages[frame_id].is_dirty, <<>>, <<>>)
         /\ UNCHANGED <<free_list, page_table, next_page_id, disk_manager, page_id_out,
                        dirty_unpinned>>
    ELSE LET a == AcquireFrame IN
         /\ a.ok => replacer.current_timestamp < MaxTime
         /\ free_list' = a.free_list
         /\ disk_manager' = a.disk
         /\ UNCHANGED <<next_page_id, page_id_out>>
         /\ IF a.ok
            THEN /\ page_table' = MapInsert(a.page_table, page_id, a.frame_id)
                 /\ replacer' = set_evictable(record_access(a.replacer, a.frame_id),
                                              a.frame_id, FALSE)
                 /\ pages' = [pages EXCEPT ![a.frame_id] =
                                 fetch_page_meta(@, page_id, read_page(a.disk, page_id))]
                 /\ dirty_unpinned' = [dirty_unpinned EXCEPT ![a.frame_id] = FALSE]
                 /\ net_pins' = [net_pins EXCEPT ![a.frame_id] = 1]
                 /\ last' = Observe("fetch_page", page_id, FALSE, TRUE, FALSE, a.frame_id, a,
                                    pages[a.frame_id].is_dirty, a.wrote, <<page_id>>)
            ELSE /\ page_table' = a.page_table
                 /\ replacer' = a.replacer
                 /\ UNCHANGED <<pages, dirty_unpinned, net_pins>>
                 /\ last' = Observe("fetch_page", page_id, FALSE, FALSE, FALSE, NoFrame, a,
                                    FALSE, <<>>, <<>>)

\* bug: the pin_count == 0 refusal is missing
unpin_refused_absent_only(pt, pgs, page_id) == page_id \notin DOMAIN pt

\* unpin_page 219-226: the two refusals
unpin_refused(pt, pgs, page_id) ==
    \/ page_id \notin DOMAIN pt
    \/ pgs[pt[page_id]].pin_count = 0

\* unpin_page 228: the flag is assigned
unpin_dirty(old, is_dirty) == is_dirty

\* bug: every unpin marks the frame evictable, whatever pin count remains
unpin_evictable_always(r, f, pin) == set_evictable(r, f, TRUE)

\* bug: the frame is never handed back to the replacer
unpin_evictable_never(r, f, pin) == r

\* unpin_page 231-233
unpin_evictable(r, f, pin) == IF pin = 0 THEN set_evictable(r, f, TRUE) ELSE r

unpin_page(page_id, is_dirty) ==
    IF unpin_refused(page_table, pages, page_id)
    THEN /\ last' = Observe("unpin_page", page_id, is_dirty, FALSE, Resident(page_id),
                            IF Resident(page_id) THEN page_table[page_id] ELSE NoFrame,
                            NoAcquire, FALSE, <<>>, <<>>)
         /\ UNCHANGED <<pool, page_id_out, dirty_unpinned, net_pins>>
    ELSE LET frame_id == page_table[page_id]
             pin == pages[frame_id].pin_count - 1
         IN
         /\ pages' = [pages EXCEPT ![frame_id].is_dirty = unpin_dirty(@, is_dirty),
                                   ![frame_id].pin_count = pin]
         /\ replacer' = unpin_evictable(replacer, frame_id, pin)
         /\ dirty_unpinned' = [dirty_unpinned EXCEPT ![frame_id] = @ \/ is_dirty]
         /\ net_pins' = [net_pins EXCEPT ![frame_id] = @ - 1]
         /\ last' = Observe("unpin_page", page_id, is_dirty, TRUE, TRUE, frame_id, NoAcquire,
                            pages[frame_id].is_dirty, <<>>, <<>>)
         /\ UNCHANGED <<free_list, page_table, next_page_id, disk_manager, page_id_out>>


\* bug: the write is skipped for a page that is not dirty
flush_wrote_if_dirty(page_id, pg) ==
    IF pg.is_dirty THEN << <<page_id, pg.data>> >> ELSE <<>>

\* flush_page 253: the write_page calls issued, whatever the dirty flag
flush_wrote(page_id, pg) == << <<page_id, pg.data>> >>

\* the disk after the write_page calls of wr, in order
RECURSIVE DiskAfter(_, _)
DiskAfter(dm, wr) ==
    IF wr = <<>> THEN dm
    ELSE DiskAfter(write_page(dm, Head(wr)[1], Head(wr)[2]), Tail(wr))

flush_page(page_id) ==
    IF ~Resident(page_id)
    THEN /\ last' = Observe("flush_page", page_id, FALSE, FALSE, FALSE, NoFrame, NoAcquire,
                            FALSE, <<>>, <<>>)
         /\ UNCHANGED <<pool, page_id_out, dirty_unpinned, net_pins>>
    ELSE LET frame_id == page_table[page_id] IN
         /\ disk_manager' = DiskAfter(disk_manager, flush_wrote(page_id, pages[frame_id]))
         /\ pages' = [pages EXCEPT ![frame_id].is_dirty = FALSE]
         /\ dirty_unpinned' = [dirty_unpinned EXCEPT ![frame_id] = FALSE]
         /\ last' = Observe("flush_page", page_id, FALSE, TRUE, TRUE, frame_id, NoAcquire,
                            pages[frame_id].is_dirty,
                            flush_wrote(page_id, pages[frame_id]), <<>>)
         /\ UNCHANGED <<free_list, page_table, next_page_id, replacer, page_id_out, net_pins>>

\* flush_all_pages 263-273: the loop from frame i on
RECURSIVE FlushFrom(_, _)
FlushFrom(i, st) ==
    IF i >= pool_size THEN st
    ELSE LET page == st.pages[i] IN
         IF page.page_id # INVALID_PAGE_ID /\ page.page_id \in DOMAIN page_table
         THEN LET frame_id == page_table[page.page_id] IN
              FlushFrom(i + 1,
                  [pages |-> [st.pages EXCEPT ![frame_id].is_dirty = FALSE],
                   disk |-> write_page(st.disk, page.page_id, st.pages[frame_id].data),
                   owed |-> [st.owed EXCEPT ![frame_id] = FALSE],
                   wrote |-> Append(st.wrote, <<page.page_id, st.pages[frame_id].data>>)])
         ELSE FlushFrom(i + 1, st)

flush_all_pages ==
    LET st == FlushFrom(0, [pages |-> pages, disk |-> disk_manager,
                            owed |-> dirty_unpinned, wrote |-> <<>>]) IN
    /\ pages' = st.pages
    /\ disk_manager' = st.disk
    /\ dirty_unpinned' = st.owed
    /\ last' = Observe("flush_all_pages", INVALID_PAGE_ID, FALSE, TRUE, FALSE, NoFrame,
                       NoAcquire, FALSE, st.wrote, <<>>)
    /\ UNCHANGED <<free_list, page_table, next_page_id, replacer, page_id_out, net_pins>>

\* delete_page 288-290: the result for a page that is not in the page table
delete_absent_result == FALSE

\* delete_page 298
delete_replacer(r, f) == remove(r, f)

\* bug: the freed frame is not returned to the free list
delete_free_list_dropped(fl, f) == fl

\* delete_page 299
delete_free_list(fl, f) == Append(fl, f)

\* bug: the freed frame keeps its page id
delete_page_meta_keeps_id(pg) ==
    reset_memory([pg EXCEPT !.is_dirty = FALSE, !.pin_count = 0])

\* delete_page 300-304
delete_page_meta(pg) ==
    reset_memory([pg EXCEPT !.page_id = INVALID_PAGE_ID, !.is_dirty = FALSE, !.pin_count = 0])

delete_page(page_id) ==
    IF ~Resident(page_id)
    THEN /\ last' = Observe("delete_page", page_id, FALSE, delete_absent_result, FALSE, NoFrame,
                            NoAcquire, FALSE, <<>>, <<>>)
         /\ UNCHANGED <<pool, page_id_out, dirty_unpinned, net_pins>>
    ELSE LET frame_id == page_table[page_id] IN
         IF pages[frame_id].pin_count > 0
         THEN /\ last' = Observe("delete_page", page_id, FALSE, FALSE, TRUE, frame_id,
                                 NoAcquire, pages[frame_id].is_dirty, <<>>, <<>>)
              /\ UNCHANGED <<pool, page_id_out, dirty_unpinned, net_pins>>
         ELSE /\ page_table' = MapRemove(page_table, page_id)
              /\ replacer' = delete_replacer(replacer, frame_id)
              /\ free_list' = delete_free_list(free_list, frame_id)
              /\ pages' = [pages EXCEPT ![frame_id] = delete_page_meta(@)]
              /\ dirty_unpinned' = [dirty_unpinned EXCEPT ![frame_id] = FALSE]
              /\ net_pins' = [net_pins EXCEPT ![frame_id] = 0]
              /\ last' = Observe("delete_page", page_id, FALSE, TRUE, TRUE, frame_id,
                                 NoAcquire, pages[frame_id].is_dirty, <<>>, <<>>)
              /\ UNCHANGED <<next_page_id, disk_manager, page_id_out>>

\* The holder of a pinned page writes its bytes through the `&mut Page` that
\* new_page (112) and fetch_page (175, 204) return.
write_data(frame_id, bytes) ==
    /\ pages[frame_id].pin_count > 0
    /\ pages[frame_id].data # bytes
    /\ pages' = [pages EXCEPT ![frame_id].data = bytes]
    /\ last' = Observe("write_data", pages[frame_id].page_id, FALSE, TRUE, TRUE, frame_id,
                       NoAcquire, pages[frame_id].is_dirty, <<>>, <<>>)
    /\ UNCHANGED <<free_list, page_table, next_page_id, replacer, disk_manager, page_id_out,
                   dirty_unpinned, net_pins>>

\* a call on the exclusive path leaves the lock-guarded state alone
Exclusive(call) == call /\ UNCHANGED <<fields, fields_lock, threads, returned_ids, calls>>

\* new_page, with the id it returned added to the history of returned ids
call_new_page ==
    /\ new_page
    /\ returned_ids' = IF last'.ok THEN returned_ids \cup {last'.page_id} ELSE returned_ids
    /\ UNCHANGED <<fields, fields_lock, threads, calls>>

Next ==
    \/ call_new_page
    \/ \E p \in FetchIds : Exclusive(fetch_page(p))
    \/ \E p \in PageIds, d \in BOOLEAN : Exclusive(unpin_page(p, d))
    \/ \E p \in PageIds : Exclusive(flush_page(p))
    \/ Exclusive(flush_all_pages)
    \/ \E p \in PageIds : Exclusive(delete_page(p))
    \/ \E f \in Frames, b \in DataVals : Exclusive(write_data(f, b))

Spec == Init /\ [][Next]_vars

\* The same pool driven by callers that never write page bytes: pin counts,
\* the page table, the free list and the replacer evolve exactly as under
\* Next, every page image stays the initial one.
NextPool ==
    \/ call_new_page
    \/ \E p \in FetchIds : Exclusive(fetch_page(p))
    \/ \E p \in PageIds, d \in BOOLEAN : Exclusive(unpin_page(p, d))
    \/ \E p \in PageIds : Exclusive(flush_page(p))
    \/ Exclusive(flush_all_pages)
    \/ \E p \in PageIds : Exclusive(delete_page(p))

SpecPool == Init /\ [][NextPool]_vars

\* ---------------------------------------------------------------- new_page_concurrent
\* new_page_concurrent 116, 134: self.fields.lock()
lock_fields(t) == fields_lock = NoThread /\ fields_lock' = t

\* 141-147, then the MutexGuard is dropped on return (149).  `*page_id` is
\* the value the caller passed in: the allocate_page call at 140 is commented out.
Install(fl, f, page_id) ==
    [fl EXCEPT !.page_table = MapInsert(@, page_id, f),
               !.replacer = set_evictable(record_access(@, f), f, FALSE),
               !.meta_data = [@ EXCEPT ![f].pin_count = 1, ![f].page_id = page_id]]

Returned(t, ok, f, page_id, evicted) ==
    /\ threads' = [threads EXCEPT ![t] = ThreadIdle]
    /\ fields_lock' = NoThread
    /\ last' = [NoCall EXCEPT !.op = "new_page_concurrent", !.ok = ok, !.frame = f,
                              !.page_id = IF ok THEN page_id ELSE INVALID_PAGE_ID,
                              !.evict_called = evicted]
    /\ returned_ids' = IF ok THEN returned_ids \cup {page_id} ELSE returned_ids

\* one step of thread t inside new_page_concurrent(page_id)
new_page_concurrent(t, page_id) ==
    LET me == threads[t] IN
    /\ UNCHANGED <<free_list, page_table, pages, next_page_id, replacer, page_id_out,
                   dirty_unpinned, net_pins>>
    /\ CASE me.pc = "idle" ->
            \* 116
            /\ lock_fields(t)
            /\ threads' = [threads EXCEPT ![t].pc = "locked"]
            /\ last' = [NoCall EXCEPT !.op = "lock_fields", !.ok = TRUE]
            /\ UNCHANGED <<fields, disk_manager, returned_ids>>
         [] me.pc = "locked" ->
            \* 118-130, holding the mutex
            IF fields.free_list # <<>>
            THEN /\ fields' = Install([fields EXCEPT !.free_list = Tail(@)],
                                      Head(fields.free_list), page_id)
                 /\ Returned(t, TRUE, Head(fields.free_list), page_id, FALSE)
                 /\ UNCHANGED disk_manager
            ELSE LET e == evict(fields.replacer) IN
                 IF ~e.ok
                 THEN \* 126-128: return None
                      /\ fields' = [fields EXCEPT !.replacer = e.replacer]
                      /\ Returned(t, FALSE, NoFrame, page_id, TRUE)
                      /\ UNCHANGED disk_manager
                 ELSE IF fields.meta_data[e.frame_id].is_dirty
                      THEN \* 131: drop(fields)
                           /\ fields' = [fields EXCEPT !.replacer = e.replacer]
                           /\ fields_lock' = NoThread
                           /\ threads' = [threads EXCEPT ![t] =
                                 [pc |-> "write_back", frame_id |-> e.frame_id,
                                  page_id |-> page_id, holds_page |-> NoFrame]]
                           /\ last' = [NoCall EXCEPT !.op = "drop_fields", !.ok = TRUE,
                                                     !.frame = e.frame_id]
                           /\ UNCHANGED <<disk_manager, returned_ids>>
                      ELSE \* 136-149
                           /\ fields' = Install(
                                 [fields EXCEPT
                                    !.replacer = e.replacer,
                                    !.page_table =
                                        MapRemove(@, fields.meta_data[e.frame_id].page_id)],
                                 e.frame_id, page_id)
                           /\ Returned(t, TRUE, e.frame_id, page_id, TRUE)
                           /\ UNCHANGED disk_manager
         [] me.pc = "write_back" ->
            \* 132-133: the victim's RwLock is taken for reading, then write_page
            /\ disk_manager' = write_page(disk_manager, fields.pages[me.frame_id].page_id,
                                          fields.pages[me.frame_id].data)
            /\ threads' = [threads EXCEPT ![t].pc = "relock", ![t].holds_page = me.frame_id]
            /\ last' = [NoCall EXCEPT !.op = "write_back", !.ok = TRUE, !.frame = me.frame_id,
                           !.wrote = << <<fields.pages[me.frame_id].page_id,
                                          fields.pages[me.frame_id].data>> >>]
            /\ UNCHANGED <<fields, fields_lock, returned_ids>>
         [] me.pc = "relock" ->
            \* 134: the mutex is taken again while the read guard of 132 is
            \* still alive (it is dropped at the end of the block, 135); 136-149
            /\ fields_lock = NoThread
            /\ fields' = Install(
                  [fields EXCEPT !.page_table =
                                    MapRemove(@, fields.meta_data[me.frame_id].page_id)],
                  me.frame_id, me.page_id)
            /\ Returned(t, TRUE, me.frame_id, me.page_id, TRUE)
            /\ UNCHANGED disk_manager

\* every exclusive call of NextPool, interleaved with threads that are
\* inside new_page_concurrent
NextConcurrent ==
    \/ call_new_page
    \/ \E p \in FetchIds : Exclusive(fetch_page(p))
    \/ \E p \in PageIds, d \in BOOLEAN : Exclusive(unpin_page(p, d))
    \/ \E p \in PageIds : Exclusive(flush_page(p))
    \/ Exclusive(flush_all_pages)
    \/ \E p \in PageIds : Exclusive(delete_page(p))
    \/ \E t \in Threads, p \in PageIds : new_page_concurrent(t, p) /\ UNCHANGED calls

SpecConcurrent == Init /\ [][NextConcurrent]_vars

\* a single caller making new_page calls on one path and new_page_concurrent
\* calls on the other; the two paths work on disjoint state of the same
\* BufferPoolManager, so each sees exactly its own sequence of calls
paths_new_page ==
    /\ Len(calls.exclusive) < MaxCalls
    /\ \A t \in Threads : threads[t].pc = "idle"
    /\ new_page
    /\ returned_ids' = IF last'.ok THEN returned_ids \cup {last'.page_id} ELSE returned_ids
    /\ calls' = [calls EXCEPT !.exclusive = Append(@, last'.ok)]
    /\ UNCHANGED <<fields, fields_lock, threads>>

paths_new_page_concurrent ==
    /\ Len(calls.concurrent) < MaxCalls
    /\ \E p \in PageIds :
          /\ new_page_concurrent(1, p)
          /\ calls' = IF last'.op = "new_page_concurrent"
                      THEN [calls EXCEPT !.concurrent = Append(@, last'.ok)]
                      ELSE calls

NextPaths == paths_new_page \/ paths_new_page_concurrent

SpecPaths == Init /\ [][NextPaths]_vars

TypeOK ==
    /\ next_page_id \in 0 .. MaxPageId
    /\ DOMAIN page_table \subseteq PageIds
    /\ \A p \in DOMAIN page_table : page_table[p] \in Frames
    /\ \A f \in Frames : pages[f].pin_count >= 0 /\ pages[f].data \in DataVals


\* ---------------------------------------------------------------- claims
AllPinned == \A f \in Frames : pages[f].pin_count > 0

\* C1: whenever an acquisition evicts a victim frame, that frame's pin count
\* was 0 when it was selected, and no frame with pin_count > 0 is evictable
\* in the replacer (so it can never be the replacer's choice).
C1_EvictionRespectsPinning ==
    /\ last.victim # NoFrame => last.victim_pin = 0
    /\ \A f \in Frames : pages[f].pin_count > 0 => f \notin Evictable(replacer)

\* an eviction took place while the other frame was pinned
C1_Witness ==
    /\ last.op = "fetch_page" /\ last.victim # NoFrame
    /\ \E f \in Frames : f # last.victim /\ pages[f].pin_count > 0

\* C2: a page that was unpinned with is_dirty = true (and not written since)
\* is written to disk, with its id and its bytes, when its frame is evicted.
C2_DirtyWriteBack ==
    (last.victim # NoFrame /\ last.victim_owed)
        => last.wrote = << <<last.victim_page, last.victim_data>> >>

\* C3: after a successful unpin_page(p, d) the dirty flag is (flag before) OR d.
C3_UnpinOrsDirty ==
    (last.op = "unpin_page" /\ last.ok)
        => pages[last.frame].is_dirty = (last.dirty_before \/ last.is_dirty)

\* C4: with every frame holding a pinned page, new_page and a fetch_page miss
\* return no page.
C4_CapacityExhaustion ==
    [][ ( /\ AllPinned
          /\ Cardinality(DOMAIN page_table) = pool_size
          /\ \/ last'.op = "new_page"
             \/ last'.op = "fetch_page" /\ last'.page_id \notin DOMAIN page_table )
        => (~last'.ok /\ last'.frame = NoFrame) ]_vars

\* a fetch_page miss failed on a full, fully pinned pool
C4_Witness ==
    /\ last.op = "fetch_page" /\ ~last.ok /\ ~last.hit
    /\ AllPinned /\ Cardinality(DOMAIN page_table) = pool_size

\* C5: a resident page's pin count is its acquisitions minus its unpins since
\* it became resident; when they balance the pin count is 0 and the frame is
\* evictable in the replacer, whose size counts it.
C5_PinBalance ==
    \A p \in DOMAIN page_table :
        LET f == page_table[p] IN
        /\ pages[f].pin_count = net_pins[f]
        /\ net_pins[f] = 0 =>
              /\ pages[f].pin_count = 0
              /\ f \in Evictable(replacer)
              /\ size(replacer) >= 1

\* a page acquired twice has just been unpinned for the second time
C5_Witness ==
    /\ last.op = "unpin_page" /\ last.ok
    /\ last.page_id \in DOMAIN page_table
    /\ net_pins[last.frame] = 0
    /\ Len(replacer.node_store[last.frame].history) = 2

\* C6: delete_page of a page that is not resident returns true.
C6_DeleteAbsentReturnsTrue ==
    (last.op = "delete_page" /\ ~last.hit) => last.ok

\* C7: unpin_page of a non-resident page or of a page with pin count 0, and
\* delete_page of a pinned page, return false and change nothing.
C7_MisuseNoChange ==
    [][ ( \/ /\ last'.op = "unpin_page"
             /\ \/ last'.page_id \notin DOMAIN page_table
                \/ pages[page_table[last'.page_id]].pin_count = 0
          \/ /\ last'.op = "delete_page"
             /\ last'.page_id \in DOMAIN page_table
             /\ pages[page_table[last'.page_id]].pin_count > 0 )
        => (~last'.ok /\ UNCHANGED <<pool, page_id_out>>) ]_vars

\* unpin_page was refused on a resident page whose pin count is 0
C7_Witness ==
    /\ last.op = "unpin_page" /\ ~last.ok /\ last.hit
    /\ pages[last.frame].pin_count = 0
    /\ last.frame \in Evictable(replacer)

\* C8: delete_page of a resident page with pin count 0 returns true, removes
\* the page-table entry, drops the frame from the replacer, resets the frame
\* and appends it to the free list; when it is then the only free frame, a
\* new_page that follows takes exactly that frame without calling evict.
C8_DeleteUnpinned ==
    [][ /\ ( /\ last'.op = "delete_page"
             /\ last'.page_id \in DOMAIN page_table
             /\ pages[page_table[last'.page_id]].pin_count = 0 )
           => LET f == page_table[last'.page_id] IN
              /\ last'.ok
              /\ last'.page_id \notin DOMAIN page_table'
              /\ ~replacer'.node_store[f].tracked
              /\ f \notin Evictable(replacer')
              /\ pages'[f].page_id = INVALID_PAGE_ID
              /\ ~pages'[f].is_dirty
              /\ pages'[f].pin_count = 0
              /\ free_list' = Append(free_list, f)
        /\ ( /\ last.op = "delete_page" /\ last.ok
             /\ free_list = <<last.frame>>
             /\ last'.op = "new_page" )
           => /\ last'.ok
              /\ last'.frame = last.frame
              /\ ~last'.evict_called
              /\ last'.victim = NoFrame ]_vars

\* a delete has just freed the only free frame and new_page can follow
C8_Witness ==
    /\ last.op = "delete_page" /\ last.ok
    /\ free_list = <<last.frame>>
    /\ next_page_id < MaxPageId
    /\ replacer.current_timestamp < MaxTime

\* C9: after a successful new_page the frame has pin_count 1, is clean, holds
\* the new id, the page table maps the new id to it and no longer holds the
\* victim's id, and the replacer tracks the frame as non-evictable.
C9_NewPageFrame ==
    (last.op = "new_page" /\ last.ok)
        => /\ pages[last.frame].pin_count = 1
           /\ ~pages[last.frame].is_dirty
           /\ pages[last.frame].page_id = last.page_id
           /\ last.page_id \in DOMAIN page_table
           /\ page_table[last.page_id] = last.frame
           /\ last.victim # NoFrame => last.victim_page \notin DOMAIN page_table
           /\ replacer.node_store[last.frame].tracked
           /\ ~replacer.node_store[last.frame].is_evictable

\* C10: with the free list empty and no frame evictable, new_page and a
\* fetch_page miss return no page and change nothing: no id is consumed, the
\* caller's page_id is not set, pool state and disk stay as they were.
C10_FailedAcquisitionNoChange ==
    [][ ( /\ free_list = <<>>
          /\ Evictable(replacer) = {}
          /\ \/ last'.op = "new_page"
             \/ last'.op = "fetch_page" /\ last'.page_id \notin DOMAIN page_table )
        => (~last'.ok /\ UNCHANGED <<pool, page_id_out>>) ]_vars

\* new_page failed for want of a frame while page ids were still available
C10_Witness ==
    /\ last.op = "new_page" /\ ~last.ok /\ last.evict_called
    /\ next_page_id < MaxPageId
    /\ page_id_out # INVALID_PAGE_ID


\* C11: flush_page of a resident page issues exactly one write_page of the
\* page's current bytes, dirty or not, pinned or not, clears the dirty flag
\* and returns true, leaving pin count, page table, free list, replacer and
\* bytes as they were (so a second flush writes again and ends in the same
\* state); of a non-resident page it returns false and writes nothing.
C11_FlushAlwaysWrites ==
    [][ /\ ( last'.op = "flush_page" /\ last'.page_id \in DOMAIN page_table )
           => LET f == page_table[last'.page_id] IN
              /\ last'.ok
              /\ last'.wrote = << <<last'.page_id, pages[f].data>> >>
              /\ disk_manager' = [disk_manager EXCEPT ![last'.page_id] = pages[f].data]
              /\ pages' = [pages EXCEPT ![f].is_dirty = FALSE]
              /\ UNCHANGED <<page_table, free_list, replacer, next_page_id>>
        /\ ( last'.op = "flush_page" /\ last'.page_id \notin DOMAIN page_table )
           => /\ ~last'.ok
              /\ last'.wrote = <<>>
              /\ UNCHANGED pool
        /\ ( /\ last.op = "flush_page" /\ last.ok
             /\ last'.op = "flush_page" /\ last'.page_id = last.page_id )
           => /\ last'.ok
              /\ last'.wrote = last.wrote
              /\ UNCHANGED pool ]_vars

\* a clean, pinned page has just been flushed and its bytes written out
C11_Witness ==
    /\ last.op = "flush_page" /\ last.ok /\ ~last.dirty_before
    /\ Len(last.wrote) = 1
    /\ pages[last.frame].pin_count > 0
    /\ pages[last.frame].data # 0
    /\ disk_manager[last.page_id] = pages[last.frame].data

\* C12: fetch_page of a resident page increments its pin count by 1, records
\* an access, marks the frame non-evictable and returns the page in the same
\* frame; no read_page, no write_page, and page table, free list, dirty flag
\* and bytes are unchanged.
C12_FetchHit ==
    [][ ( last'.op = "fetch_page" /\ last'.page_id \in DOMAIN page_table )
        => LET f == page_table[last'.page_id] IN
           /\ last'.ok /\ last'.hit /\ last'.frame = f
           /\ pages' = [pages EXCEPT ![f].pin_count = pages[f].pin_count + 1]
           /\ replacer'.current_timestamp = replacer.current_timestamp + 1
           /\ replacer'.node_store[f].tracked
           /\ ~replacer'.node_store[f].is_evictable
           /\ replacer'.node_store[f].history =
                 LastK(Append(replacer.node_store[f].history, replacer.current_timestamp))
           /\ \A g \in Frames \ {f} : replacer'.node_store[g] = replacer.node_store[g]
           /\ last'.read = <<>> /\ last'.wrote = <<>>
           /\ UNCHANGED <<page_table, free_list, disk_manager, next_page_id>> ]_vars

\* an unpinned, dirty, evictable page has just been fetched again
C12_Witness ==
    /\ last.op = "fetch_page" /\ last.ok /\ last.hit
    /\ last.dirty_before
    /\ pages[last.frame].pin_count = 1
    /\ pages[last.frame].is_dirty
    /\ Len(replacer.node_store[last.frame].history) = 2


\* ---------------------------------------------------------------- the replacer on its own
\* LRUKReplacer::new(replacer_frames, replacer_k) driven by arbitrary
\* record_access / set_evictable / evict calls; evict is the call the pool
\* makes at new_page 93 and fetch_page 185.
rest_of_pool ==
    <<free_list, page_table, pages, next_page_id, disk_manager, page_id_out,
      dirty_unpinned, net_pins, fields, fields_lock, threads, returned_ids, calls>>

ReplacerFrames == 0 .. (replacer_frames - 1)

InitReplacer ==
    /\ free_list = [i \in 1 .. pool_size |-> i - 1]
    /\ page_table = <<>>
    /\ pages = [f \in Frames |-> PageNew]
    /\ next_page_id = 0
    /\ replacer = ReplacerOf(replacer_frames)
    /\ disk_manager = DiskNew
    /\ page_id_out = INVALID_PAGE_ID
    /\ last = NoCall
    /\ dirty_unpinned = [f \in Frames |-> FALSE]
    /\ net_pins = [f \in Frames |-> 0]
    /\ fields = FieldsDefault
    /\ fields_lock = NoThread
    /\ threads = [t \in Threads |-> ThreadIdle]
    /\ returned_ids = {}
    /\ calls = [exclusive |-> <<>>, concurrent |-> <<>>]

r_record_access(f) ==
    /\ replacer.current_timestamp < MaxAccesses
    /\ replacer' = record_access(replacer, f)
    /\ last' = [NoCall EXCEPT !.op = "record_access", !.frame = f, !.ok = TRUE]
    /\ UNCHANGED rest_of_pool

r_set_evictable(f, b) ==
    /\ replacer.node_store[f].tracked
    /\ replacer' = set_evictable(replacer, f, b)
    /\ last' = [NoCall EXCEPT !.op = "set_evictable", !.frame = f, !.ok = TRUE]
    /\ UNCHANGED rest_of_pool

r_evict ==
    LET e == evict(replacer) IN
    /\ replacer' = e.replacer
    /\ last' = [NoCall EXCEPT !.op = "evict", !.frame = e.frame_id, !.ok = e.ok,
                              !.evict_called = TRUE]
    /\ UNCHANGED rest_of_pool

NextReplacer ==
    \/ \E f \in ReplacerFrames : r_record_access(f)
    \/ \E f \in ReplacerFrames, b \in BOOLEAN : r_set_evictable(f, b)
    \/ r_evict

SpecReplacer == InitReplacer /\ [][NextReplacer]_vars

\* the accesses A, B, A, C on a fresh replacer, all three evictable
AfterABAC(r, A, B, C) ==
    /\ r.current_timestamp = 4
    /\ r.node_store[A] = [tracked |-> TRUE, history |-> <<0, 2>>, is_evictable |-> TRUE]
    /\ r.node_store[B] = [tracked |-> TRUE, history |-> <<1>>, is_evictable |-> TRUE]
    /\ r.node_store[C] = [tracked |-> TRUE, history |-> <<3>>, is_evictable |-> TRUE]
    /\ \A g \in DOMAIN r.node_store \ {A, B, C} : ~r.node_store[g].tracked

Restored(r, f, h) ==
    [r EXCEPT !.node_store[f] = [tracked |-> TRUE, history |-> h, is_evictable |-> TRUE]]

\* the same, after B has been evicted
ThenBGone(r, A, B, C) ==
    /\ ~r.node_store[B].tracked
    /\ AfterABAC(Restored(r, B, <<1>>), A, B, C)

\* the same, after B and C have been evicted
ThenCGone(r, A, B, C) ==
    /\ ~r.node_store[B].tracked /\ ~r.node_store[C].tracked
    /\ AfterABAC(Restored(Restored(r, B, <<1>>), C, <<3>>), A, B, C)

\* backward k-distance of a frame with at least K recorded accesses
BackwardK(r, f) ==
    LET h == r.node_store[f].history IN
    r.current_timestamp - h[Len(h) - replacer_k + 1]

FewerThanK(r, f) == Len(r.node_store[f].history) < replacer_k

\* C13: evict picks, among the evictable frames, one with the largest
\* backward k-distance; a frame with fewer than K accesses counts as infinite
\* and beats every frame with K accesses, and among those the one whose
\* earliest access is oldest wins.  For K = 2 and accesses A, B, A, C with
\* all three evictable, the evictions come out B, then C, then A.
C13_LruKVictim ==
    [][ /\ ( last'.op = "evict" /\ Evictable(replacer) # {} )
           => LET v == last'.frame IN
              /\ last'.ok
              /\ v \in Evictable(replacer)
              /\ ~replacer'.node_store[v].tracked
              /\ \A g \in Evictable(replacer) \ {v} :
                    /\ replacer'.node_store[g] = replacer.node_store[g]
                    /\ FewerThanK(replacer, g)
                          => /\ FewerThanK(replacer, v)
                             /\ replacer.node_store[v].history[1]
                                   < replacer.node_store[g].history[1]
                    /\ ~FewerThanK(replacer, g)
                          => \/ FewerThanK(replacer, v)
                             \/ BackwardK(replacer, v) > BackwardK(replacer, g)
        /\ ( last'.op = "evict" /\ Evictable(replacer) = {} )
           => (~last'.ok /\ replacer' = replacer)
        /\ replacer_k = 2 =>
           \A A \in ReplacerFrames, B \in ReplacerFrames, C \in ReplacerFrames :
              ( A # B /\ A # C /\ B # C /\ last'.op = "evict" ) =>
                 /\ AfterABAC(replacer, A, B, C)
                       => ( last'.frame = B /\ ThenBGone(replacer', A, B, C) )
                 /\ ThenBGone(replacer, A, B, C)
                       => ( last'.frame = C /\ ThenCGone(replacer', A, B, C) )
                 /\ ThenCGone(replacer, A, B, C)
                       => ( last'.frame = A /\ Evictable(replacer') = {} ) ]_vars

\* after A, B, A, C the replacer has just evicted B; C and A are still waiting
C13_Witness ==
    /\ replacer_k = 2
    /\ last.op = "evict" /\ last.ok
    /\ \E A \in ReplacerFrames, C \in ReplacerFrames :
          /\ A # last.frame /\ C # last.frame /\ A # C
          /\ ThenBGone(replacer, A, last.frame, C)


C16_ReplacerPinConsistency ==
    \A p \in DOMAIN page_table :
        LET f == page_table[p] IN
        /\ replacer.node_store[f].tracked
        /\ (f \in Evictable(replacer)) <=> (pages[f].pin_count = 0)

\* after an eviction one resident page is pinned and another is not
C16_Witness ==
    /\ last.victim # NoFrame
    /\ \E p \in DOMAIN page_table, q \in DOMAIN page_table :
          /\ pages[page_table[p]].pin_count > 0
          /\ pages[page_table[q]].pin_count = 0

InFreeList(f) == Cardinality({i \in 1 .. Len(free_list) : free_list[i] = f})

MappedTo(f) == Cardinality({p \in DOMAIN page_table : page_table[p] = f})

C18_SamePaths ==
    LET n == IF Len(calls.exclusive) < Len(calls.concurrent)
             THEN Len(calls.exclusive) ELSE Len(calls.concurrent)
    IN
    /\ \A i \in 1 .. n : calls.exclusive[i] = calls.concurrent[i]
    /\ ( /\ Len(calls.exclusive) = Len(calls.concurrent)
         /\ Len(calls.exclusive) >= 1
         /\ \A t \in Threads : threads[t].pc = "idle" )
       => /\ fields.page_table = page_table
          /\ fields.free_list = free_list
          /\ \A f \in Frames :
                /\ f \in DOMAIN fields.meta_data
                /\ fields.meta_data[f].pin_count = pages[f].pin_count

====
